---- MODULE Spec2Model ----
(***************************************************************************)
(* Tag-query expression engine (package tagquery): ParseExpression, the    *)
(* NOT_MATCH expression with its cached filter closure, and the            *)
(* MetricDefinitionFilters combinator.                                     *)
(*                                                                         *)
(* Texts, keys, values and tags are sequences of one-character strings,    *)
(* so that indexing, slicing and concatenation are those of Go strings.    *)
(* Positions named pos are Go's 0-based byte positions.                    *)
(***************************************************************************)
EXTENDS Integers, Sequences, FiniteSets, TLC

VARIABLES
    \* ---- ParseExpression and the methods of the parsed expression
    text,                   \* the argument expr of ParseExpression
    pres,                   \* what ParseExpression returned: [err, e]
    dflt,                   \* what GetDefaultDecision() returned
    str,                    \* what Strings() returned for the expression
    again,                  \* what ParseExpression returned for str
    \* ---- one NOT_MATCH expression and the closure built from it
    e,                      \* the receiver of GetMetricDefinitionFilter
    closure,                \* which closure was returned ("none" before)
    matchCacheSize,         \* package variable matchCacheSize
    matchCache,             \* sync.Map matchCache (its key set)
    missCache,              \* sync.Map missCache (its key set)
    currentMatchCacheSize,  \* int32 counter
    currentMissCacheSize,   \* int32 counter
    pc,                     \* per worker: where it is inside the closure
    args,                   \* per worker: the (name, tags) of its call
    value,                  \* per worker: local variable value
    ret,                    \* per worker: the decision returned
    \* ---- MetricDefinitionFilters.Filter
    m,                      \* the decisions the filters of m return
    fi,                     \* loop index i of Filter
    invoked,                \* indexes of the filters invoked so far
    decision,               \* what Filter returned
    \* ---- an Expressions collection
    given,                  \* the collection as the caller built it
    expressions,            \* the collection (the slice e, sorted in place)
    sorted,                 \* SortByFilterOrder has returned
    initial                 \* what findInitialExpression returned

parseVars == <<text, pres, dflt, str, again>>
closureVars == <<e, closure, matchCacheSize, matchCache, missCache,
                 currentMatchCacheSize, currentMissCacheSize,
                 pc, args, value, ret>>
filtersVars == <<m, fi, invoked, decision>>
collVars == <<given, expressions, sorted, initial>>
vars == <<text, pres, dflt, str, again, given, expressions, sorted, initial, e, closure, matchCacheSize, matchCache, missCache,
          currentMatchCacheSize, currentMissCacheSize, pc, args, value, ret,
          m, fi, invoked, decision>>

(***************************************************************************)
(* Bounds of the model.                                                    *)
(***************************************************************************)
MaxLen == 4
MaxCap == 1
NumWorkers == 2
MaxFilters == 4
MaxExprs == 3

(***************************************************************************)
(* Go strings.                                                             *)
(***************************************************************************)
\* what an index expression yields outside 0 .. len(s)-1: the run-time
\* panic "index out of range"
OutOfRange == "index out of range"

\* expr[pos]
At(s, pos) == IF 0 <= pos /\ pos < Len(s) THEN s[pos + 1] ELSE OutOfRange

\* s[from:]
SliceFrom(s, from) == SubSeq(s, from + 1, Len(s))

\* s[:to]
SliceTo(s, to) == SubSeq(s, 1, to)

\* strings.HasPrefix(s, p)
HasPrefix(s, p) == Len(s) >= Len(p) /\ SubSeq(s, 1, Len(p)) = p

\* int32(x) of an int x with -2^31 <= x < 2^31, which every integer of the
\* model is: the conversion keeps the value
ToInt32(x) == x

\* all sequences over S of length at most n
RECURSIVE SeqsUpTo(_, _)
SeqsUpTo(S, n) ==
    IF n = 0 THEN {<<>>}
    ELSE LET shorter == SeqsUpTo(S, n - 1)
         IN shorter \cup {Append(s, c) : s \in shorter, c \in S}

(***************************************************************************)
(* package regexp, for the patterns the model can draw: literals, `.`,     *)
(* `^`, the groups `(` and `(?:`, and the repetitions `*` and `?` with an  *)
(* optional lazy `?`.  None of `\ [ ] { } + | $` is in any alphabet below. *)
(***************************************************************************)
ReRepeat == {"*", "?"}

\* syntax check of regexp.Compile, scanning p from position i (1-based)
\* depth: open groups; canRepeat: a repetition may follow; lastRepeat: the
\* previous token was a repetition
RECURSIVE ReSyntaxOK(_, _, _, _, _)
ReSyntaxOK(p, i, depth, canRepeat, lastRepeat) ==
    IF i > Len(p) THEN depth = 0
    ELSE IF p[i] = "(" THEN
        IF i + 1 <= Len(p) /\ p[i + 1] = "?" THEN
            /\ i + 2 <= Len(p)
            /\ p[i + 2] = ":"
            /\ ReSyntaxOK(p, i + 3, depth + 1, FALSE, FALSE)
        ELSE ReSyntaxOK(p, i + 1, depth + 1, FALSE, FALSE)
    ELSE IF p[i] = ")" THEN
        /\ depth > 0
        /\ ReSyntaxOK(p, i + 1, depth - 1, TRUE, FALSE)
    ELSE IF p[i] \in ReRepeat THEN
        /\ canRepeat
        /\ ~lastRepeat
        /\ IF i + 1 <= Len(p) /\ p[i + 1] = "?"
           THEN ReSyntaxOK(p, i + 2, depth, TRUE, TRUE)
           ELSE ReSyntaxOK(p, i + 1, depth, TRUE, TRUE)
    ELSE ReSyntaxOK(p, i + 1, depth, TRUE, FALSE)

\* position of the ")" closing the group whose body starts at i
RECURSIVE ReClose(_, _, _)
ReClose(p, i, depth) ==
    IF p[i] = ")" THEN (IF depth = 0 THEN i ELSE ReClose(p, i + 1, depth - 1))
    ELSE IF p[i] = "(" THEN ReClose(p, i + 1, depth + 1)
    ELSE ReClose(p, i + 1, depth)

\* first position of the body of the group opened at i
ReBody(p, i) ==
    IF i + 1 <= Len(p) /\ p[i + 1] = "?" THEN i + 3 ELSE i + 1

\* last position of the atom that starts at i
ReAtomLast(p, i) ==
    IF p[i] = "(" THEN ReClose(p, ReBody(p, i), 0) ELSE i

\* The matcher works on sets of positions in s (0 .. Len(s)): P is the set
\* of positions a match may have reached, and each piece of the pattern
\* maps it to the set reachable after the piece.
RECURSIVE ReRun(_, _, _, _, _)
RECURSIVE ReAtom(_, _, _, _)
RECURSIVE ReStar(_, _, _, _)

\* the atom starting at i, applied to P
ReAtom(p, i, s, P) ==
    IF p[i] = "(" THEN ReRun(p, ReBody(p, i), ReAtomLast(p, i) - 1, s, P)
    ELSE IF p[i] = "^" THEN P \cap {0}
    ELSE IF p[i] = "." THEN {q + 1 : q \in {r \in P : r < Len(s)}}
    ELSE {q + 1 : q \in {r \in P : r < Len(s) /\ s[r + 1] = p[i]}}

\* zero or more repetitions of the atom starting at i
ReStar(p, i, s, P) ==
    LET more == P \cup ReAtom(p, i, s, P)
    IN IF more = P THEN P ELSE ReStar(p, i, s, more)

\* the pieces p[i..j], applied to P
ReRun(p, i, j, s, P) ==
    IF i > j THEN P
    ELSE LET last == ReAtomLast(p, i)
             rep == IF last + 1 <= j /\ p[last + 1] \in ReRepeat
                    THEN p[last + 1] ELSE "1"
             lazy == rep # "1" /\ last + 2 <= j /\ p[last + 2] = "?"
             next == last + 1 + (IF rep # "1" THEN 1 ELSE 0)
                              + (IF lazy THEN 1 ELSE 0)
             after == IF rep = "*" THEN ReStar(p, i, s, P)
                      ELSE IF rep = "?" THEN P \cup ReAtom(p, i, s, P)
                      ELSE ReAtom(p, i, s, P)
         IN ReRun(p, next, j, s, after)

\* a *regexp.Regexp is the pattern it was compiled from; NoRe is nil
NoRe == [set |-> FALSE, pat |-> <<>>]

\* regexp.Compile(p)
Compile(p) ==
    IF ReSyntaxOK(p, 1, 0, FALSE, FALSE)
    THEN [err |-> FALSE, re |-> [set |-> TRUE, pat |-> p]]
    ELSE [err |-> TRUE, re |-> NoRe]

\* re.MatchString(s): some substring of s matches the pattern
MatchString(re, s) ==
    ReRun(re.pat, 1, Len(re.pat), s, 0 .. Len(s)) # {}

(***************************************************************************)
(* ExpressionOperator and FilterDecision.                                  *)
(***************************************************************************)
EQUAL == "EQUAL"
NOT_EQUAL == "NOT_EQUAL"
MATCH == "MATCH"
MATCH_TAG == "MATCH_TAG"
NOT_MATCH == "NOT_MATCH"
PREFIX == "PREFIX"
PREFIX_TAG == "PREFIX_TAG"
HAS_TAG == "HAS_TAG"
NOT_HAS_TAG == "NOT_HAS_TAG"

None == "None"
Fail == "Fail"
Pass == "Pass"

\* the errors ParseExpression returns, by their format string
ErrNil == "nil"
ErrInvalidExpression == "Invalid expression: %s"
ErrValidateKey == "Error when validating key"
ErrRegexp == "regexp.Compile error"
ErrInvalidOperator == "ParseExpression: Invalid operator in expression %s"
\* not a returned error: the call panicked
ErrPanic == "panic"

(***************************************************************************)
(* Expressions.  An expression is its embedded expressionCommon (key,      *)
(* value, matchesEmpty), its operator (the concrete type) and valueRe.     *)
(***************************************************************************)
\* expressionCommon{}: the zero value
ZeroCommon == [key |-> <<>>, value |-> <<>>, matchesEmpty |-> FALSE]

\* &expressionX{expressionCommon: resCommon, valueRe: valueRe}
MakeExpression(operator, resCommon, valueRe) ==
    [op |-> operator, key |-> resCommon.key, value |-> resCommon.value,
     matchesEmpty |-> resCommon.matchesEmpty, valueRe |-> valueRe]

\* the nil Expression returned beside an error
NilExpression == [op |-> "nil", key |-> <<>>, value |-> <<>>,
                  matchesEmpty |-> FALSE, valueRe |-> NoRe]

TagKey == <<"_", "_", "t", "a", "g">>
NameKey == <<"n", "a", "m", "e">>

\* the characters validateQueryExpressionTagKey refuses in a key
InvalidKeyChars == {";", "!", "^", "="}

\* validateQueryExpressionTagKey(key) == nil
ValidateQueryExpressionTagKey(key) ==
    /\ Len(key) > 0
    /\ \A i \in 1 .. Len(key) : key[i] \notin InvalidKeyChars

(***************************************************************************)
(* ParseExpression, in the order of the code.                              *)
(***************************************************************************)
\* the FIND_OPERATOR loop, from pos on: where it stopped, the flags it set,
\* and whether it returned the error for ';'
RECURSIVE FindOperator(_, _)
FindOperator(expr, pos) ==
    IF pos >= Len(expr)
    THEN [pos |-> pos, not |-> FALSE, prefix |-> FALSE, err |-> FALSE]
    ELSE IF At(expr, pos) = "="
    THEN [pos |-> pos, not |-> FALSE, prefix |-> FALSE, err |-> FALSE]
    ELSE IF At(expr, pos) = "!"
    THEN [pos |-> pos, not |-> TRUE, prefix |-> FALSE, err |-> FALSE]
    ELSE IF At(expr, pos) = "^"
    THEN [pos |-> pos, not |-> FALSE, prefix |-> TRUE, err |-> FALSE]
    ELSE IF At(expr, pos) = ";"
    THEN [pos |-> pos, not |-> FALSE, prefix |-> FALSE, err |-> TRUE]
    ELSE FindOperator(expr, pos + 1)

\* a loop over the value that looks at its first byte alone
ValueStartsWithSemicolon(expr, pos) ==
    pos < Len(expr) /\ At(expr, pos) = ";"

\* the loop over the value: TRUE when it returns the error for ';' (byte 59)
RECURSIVE ValueHasSemicolon(_, _)
ValueHasSemicolon(expr, pos) ==
    IF pos >= Len(expr) THEN FALSE
    ELSE IF At(expr, pos) = ";" THEN TRUE
    ELSE ValueHasSemicolon(expr, pos + 1)

\* the branches for an empty value exchanged
DeriveOperatorEmptySwapped(not, prefix, regex, val) ==
    IF not THEN
        IF Len(val) = 0 THEN NOT_HAS_TAG
        ELSE IF regex THEN NOT_MATCH
        ELSE NOT_EQUAL
    ELSE
        IF prefix THEN
            IF Len(val) = 0 THEN HAS_TAG ELSE PREFIX
        ELSE IF Len(val) = 0 THEN HAS_TAG
        ELSE IF regex THEN MATCH
        ELSE EQUAL

\* the operator from the flags and the value
DeriveOperator(not, prefix, regex, val) ==
    IF not THEN
        IF Len(val) = 0 THEN HAS_TAG
        ELSE IF regex THEN NOT_MATCH
        ELSE NOT_EQUAL
    ELSE
        IF prefix THEN
            IF Len(val) = 0 THEN HAS_TAG ELSE PREFIX
        ELSE IF Len(val) = 0 THEN NOT_HAS_TAG
        ELSE IF regex THEN MATCH
        ELSE EQUAL

\* key "__tag": TRUE when the expression is refused
TagKeyRefused(not, val) == not \/ Len(val) = 0

\* key "__tag" with MATCH left as it is
TagKeyOperatorPrefixOnly(operator) ==
    IF operator = PREFIX THEN PREFIX_TAG ELSE operator

\* key "__tag": the operator remapped
TagKeyOperator(operator) ==
    IF operator = PREFIX THEN PREFIX_TAG
    ELSE IF operator = MATCH THEN MATCH_TAG
    ELSE operator

\* the value a regex operator compiles (and stores in resCommon.value)
\* a rewrite that wraps whatever the value starts with
AnchorValueAlways(val) ==
    <<"^", "(", "?", ":">> \o val \o <<")">>

\* the rewrite of a regex value before it is compiled
AnchorValue(val) ==
    IF Len(val) > 0 /\ val[1] # "^"
    THEN <<"^", "(", "?", ":">> \o val \o <<")">>
    ELSE val

ReOperators == {MATCH, NOT_MATCH, MATCH_TAG}

\* the two construction switches and the final fallback
Construct(operator, resCommon) ==
    IF operator \in ReOperators THEN
        LET rewritten == [resCommon EXCEPT !.value = AnchorValue(resCommon.value)]
            compiled == Compile(rewritten.value)
        IN IF compiled.err
           THEN [err |-> ErrRegexp, e |-> NilExpression]
           ELSE [err |-> ErrNil,
                 e |-> MakeExpression(operator, rewritten, compiled.re)]
    ELSE IF operator \in {EQUAL, NOT_EQUAL, PREFIX, HAS_TAG, NOT_HAS_TAG, PREFIX_TAG}
    THEN [err |-> ErrNil, e |-> MakeExpression(operator, resCommon, NoRe)]
    ELSE [err |-> ErrInvalidOperator, e |-> NilExpression]

\* a test of the byte after the key that reads it whatever the length
EqualsReadUnguarded(expr, pos) == At(expr, pos)

\* len(expr) <= pos || expr[pos] != '=': the byte read, NotRead when the
\* length test decides alone
NotRead == "not read"
EqualsRead(expr, pos) == IF Len(expr) <= pos THEN NotRead ELSE At(expr, pos)

\* len(expr) > pos && expr[pos] == '~': the byte read
TildeRead(expr, pos) == IF Len(expr) > pos THEN At(expr, pos) ELSE NotRead

\* a parser that lets ^=~ through
PrefixRegexAllowed(prefix, regex) == FALSE

\* ^=~ is not a valid operator
PrefixRegexRefused(prefix, regex) == regex /\ prefix

ParseExpression(expr) ==
    LET scan == FindOperator(expr, 0)
        not == scan.not
        prefix == scan.prefix
        key == SliceTo(expr, scan.pos)
        \* shift over the !/^ characters
        eqPos == IF not \/ prefix THEN scan.pos + 1 ELSE scan.pos
        equals == EqualsRead(expr, eqPos)
        tilde == TildeRead(expr, eqPos + 1)
        regex == tilde = "~"
        valuePos == IF regex THEN eqPos + 2 ELSE eqPos + 1
        val == SliceFrom(expr, valuePos)
        resCommon == [ZeroCommon EXCEPT !.key = key, !.value = val]
        derived == DeriveOperator(not, prefix, regex, val)
        operator == IF key = TagKey THEN TagKeyOperator(derived) ELSE derived
        invalid == [err |-> ErrInvalidExpression, e |-> NilExpression]
        panic == [err |-> ErrPanic, e |-> NilExpression]
    IN  IF scan.err THEN invalid
        ELSE IF scan.pos = 0 THEN invalid
        ELSE IF scan.pos > Len(expr) THEN panic
        ELSE IF ~ValidateQueryExpressionTagKey(key)
        THEN [err |-> ErrValidateKey, e |-> NilExpression]
        ELSE IF equals = OutOfRange THEN panic
        ELSE IF equals # "=" THEN invalid
        ELSE IF tilde = OutOfRange THEN panic
        ELSE IF PrefixRegexRefused(prefix, regex) THEN invalid
        ELSE IF valuePos > Len(expr) THEN panic
        ELSE IF ValueHasSemicolon(expr, valuePos) THEN invalid
        ELSE IF key = TagKey /\ TagKeyRefused(not, val) THEN invalid
        ELSE Construct(operator, resCommon)

\* expressionNotMatch.GetDefaultDecision
GetDefaultDecision(x) == IF x.matchesEmpty THEN Fail ELSE Pass

(***************************************************************************)
(* The NOT_MATCH filter closure.  GetMetricDefinitionFilter returns one of *)
(* three closures; the third shares matchCache, missCache and the two      *)
(* counters between all its callers.  A worker inside it is at one of the  *)
(* places where it touches that shared state.                              *)
(***************************************************************************)
Workers == 1 .. NumWorkers

NoArgs == [name |-> <<>>, tags |-> <<>>]
Unset == "unset"

\* a GetMetricDefinitionFilter without the branch for the key "name"
ClosureOfAnyKey(x) == "tags"

\* which closure GetMetricDefinitionFilter returns
ClosureOf(x) ==
    IF x.key = NameKey
    THEN (IF x.value = <<>> THEN "namePass" ELSE "nameRe")
    ELSE "tags"

\* prefix := e.key + "="
Prefix(x) == x.key \o <<"=">>

\* a loop that keeps scanning and decides on the last tag with the prefix
RECURSIVE LastWithPrefix(_, _, _)
LastWithPrefix(tags, prefix, i) ==
    IF i > Len(tags) THEN 0
    ELSE LET later == LastWithPrefix(tags, prefix, i + 1)
         IN IF later # 0 THEN later
            ELSE IF HasPrefix(tags[i], prefix) THEN i
            ELSE 0

\* the range loop over tags from index i (1-based): the index of the first
\* tag with the prefix, 0 when the loop ends without one
RECURSIVE FirstWithPrefix(_, _, _)
FirstWithPrefix(tags, prefix, i) ==
    IF i > Len(tags) THEN 0
    ELSE IF HasPrefix(tags[i], prefix) THEN i
    ELSE FirstWithPrefix(tags, prefix, i + 1)

\* value := tag[len(prefix):]
TagValue(tag, prefix) == SliceFrom(tag, Len(prefix))

\* a cap test that is off by one
AtOrBelowCap(size, cap) == size <= ToInt32(cap)

\* the cap test: atomic.LoadInt32(&size) < int32(matchCacheSize)
BelowCap(size, cap) == size < ToInt32(cap)

\* atomic.AddInt32(&size, 1)
AddInt32(size) == ToInt32(size + 1)

\* a Store that evicts what the map held
StoreEvicting(cache, v) == {v}

\* matchCache.Store(value, struct{}{})
Store(cache, v) == cache \cup {v}

\* _, ok := cache.Load(value)
Load(cache, v) == v \in cache

GetMetricDefinitionFilter ==
    /\ closure = "none"
    /\ closure' = ClosureOf(e)
    /\ matchCache' = {}
    /\ missCache' = {}
    /\ currentMatchCacheSize' = 0
    /\ currentMissCacheSize' = 0
    /\ UNCHANGED <<e, matchCacheSize, pc, args, value, ret>>
    /\ UNCHANGED parseVars
    /\ UNCHANGED filtersVars
    /\ UNCHANGED collVars

\* worker w returns d
Return(w, d) ==
    /\ ret' = [ret EXCEPT ![w] = d]
    /\ pc' = [pc EXCEPT ![w] = "done"]

\* a worker calls the closure: the name closures answer at once; the tag
\* closure runs its loop up to the first tag with the prefix
Call(w, name, tags) ==
    /\ closure # "none"
    /\ pc[w] \in {"idle", "done"}
    /\ args' = [args EXCEPT ![w] = [name |-> name, tags |-> tags]]
    /\ IF closure = "namePass" THEN
            /\ Return(w, Pass)
            /\ value' = [value EXCEPT ![w] = <<>>]
       ELSE IF closure = "nameRe" THEN
            /\ Return(w, IF MatchString(e.valueRe, name) THEN Fail ELSE Pass)
            /\ value' = [value EXCEPT ![w] = <<>>]
       ELSE LET i == FirstWithPrefix(tags, Prefix(e), 1)
            IN IF i = 0 THEN
                    /\ Return(w, None)
                    /\ value' = [value EXCEPT ![w] = <<>>]
               ELSE IF e.value = <<>> THEN
                    /\ Return(w, Pass)
                    /\ value' = [value EXCEPT ![w] = <<>>]
               ELSE /\ value' = [value EXCEPT ![w] = TagValue(tags[i], Prefix(e))]
                    /\ pc' = [pc EXCEPT ![w] = "loadMiss"]
                    /\ ret' = [ret EXCEPT ![w] = Unset]
    /\ UNCHANGED <<e, closure, matchCacheSize, matchCache, missCache,
                   currentMatchCacheSize, currentMissCacheSize>>
    /\ UNCHANGED parseVars
    /\ UNCHANGED filtersVars
    /\ UNCHANGED collVars

\* if _, ok := missCache.Load(value); ok { return Pass }
LoadMiss(w) ==
    /\ pc[w] = "loadMiss"
    /\ IF Load(missCache, value[w])
       THEN Return(w, Pass)
       ELSE pc' = [pc EXCEPT ![w] = "loadMatch"] /\ UNCHANGED ret
    /\ UNCHANGED <<e, closure, matchCacheSize, matchCache, missCache,
                   currentMatchCacheSize, currentMissCacheSize, args, value>>
    /\ UNCHANGED parseVars
    /\ UNCHANGED filtersVars
    /\ UNCHANGED collVars

\* if _, ok := matchCache.Load(value); ok { return Fail }
\* and then the branch on e.valueRe.MatchString(value)
LoadMatch(w) ==
    /\ pc[w] = "loadMatch"
    /\ IF Load(matchCache, value[w])
       THEN Return(w, Fail)
       ELSE /\ pc' = [pc EXCEPT ![w] = IF MatchString(e.valueRe, value[w])
                                       THEN "sizeMatch" ELSE "sizeMiss"]
            /\ UNCHANGED ret
    /\ UNCHANGED <<e, closure, matchCacheSize, matchCache, missCache,
                   currentMatchCacheSize, currentMissCacheSize, args, value>>
    /\ UNCHANGED parseVars
    /\ UNCHANGED filtersVars
    /\ UNCHANGED collVars

\* if atomic.LoadInt32(&currentMatchCacheSize) < int32(matchCacheSize)
SizeMatch(w) ==
    /\ pc[w] = "sizeMatch"
    /\ IF BelowCap(currentMatchCacheSize, matchCacheSize)
       THEN pc' = [pc EXCEPT ![w] = "storeMatch"] /\ UNCHANGED ret
       ELSE Return(w, Fail)
    /\ UNCHANGED <<e, closure, matchCacheSize, matchCache, missCache,
                   currentMatchCacheSize, currentMissCacheSize, args, value>>
    /\ UNCHANGED parseVars
    /\ UNCHANGED filtersVars
    /\ UNCHANGED collVars

\* the match branch storing into missCache
StoreMatchIntoMiss(w) ==
    /\ pc[w] = "storeMatch"
    /\ missCache' = Store(missCache, value[w])
    /\ pc' = [pc EXCEPT ![w] = "addMatch"]
    /\ UNCHANGED <<e, closure, matchCacheSize, matchCache,
                   currentMatchCacheSize, currentMissCacheSize, args, value, ret>>
    /\ UNCHANGED parseVars
    /\ UNCHANGED filtersVars
    /\ UNCHANGED collVars

\* matchCache.Store(value, struct{}{})
StoreMatch(w) ==
    /\ pc[w] = "storeMatch"
    /\ matchCache' = Store(matchCache, value[w])
    /\ pc' = [pc EXCEPT ![w] = "addMatch"]
    /\ UNCHANGED <<e, closure, matchCacheSize, missCache,
                   currentMatchCacheSize, currentMissCacheSize, args, value, ret>>
    /\ UNCHANGED parseVars
    /\ UNCHANGED filtersVars
    /\ UNCHANGED collVars

\* atomic.AddInt32(&currentMatchCacheSize, 1); return Fail
AddMatch(w) ==
    /\ pc[w] = "addMatch"
    /\ currentMatchCacheSize' = AddInt32(currentMatchCacheSize)
    /\ Return(w, Fail)
    /\ UNCHANGED <<e, closure, matchCacheSize, matchCache, missCache,
                   currentMissCacheSize, args, value>>
    /\ UNCHANGED parseVars
    /\ UNCHANGED filtersVars
    /\ UNCHANGED collVars

\* if atomic.LoadInt32(&currentMissCacheSize) < int32(matchCacheSize)
SizeMiss(w) ==
    /\ pc[w] = "sizeMiss"
    /\ IF BelowCap(currentMissCacheSize, matchCacheSize)
       THEN pc' = [pc EXCEPT ![w] = "storeMiss"] /\ UNCHANGED ret
       ELSE Return(w, Pass)
    /\ UNCHANGED <<e, closure, matchCacheSize, matchCache, missCache,
                   currentMatchCacheSize, currentMissCacheSize, args, value>>
    /\ UNCHANGED parseVars
    /\ UNCHANGED filtersVars
    /\ UNCHANGED collVars

\* a store of a missed value into the match cache
StoreMissIntoMatch(w) ==
    /\ pc[w] = "storeMiss"
    /\ matchCache' = Store(matchCache, value[w])
    /\ pc' = [pc EXCEPT ![w] = "addMiss"]
    /\ UNCHANGED <<e, closure, matchCacheSize, missCache,
                   currentMatchCacheSize, currentMissCacheSize, args, value, ret>>
    /\ UNCHANGED parseVars
    /\ UNCHANGED filtersVars
    /\ UNCHANGED collVars

\* missCache.Store(value, struct{}{})
StoreMiss(w) ==
    /\ pc[w] = "storeMiss"
    /\ missCache' = Store(missCache, value[w])
    /\ pc' = [pc EXCEPT ![w] = "addMiss"]
    /\ UNCHANGED <<e, closure, matchCacheSize, matchCache,
                   currentMatchCacheSize, currentMissCacheSize, args, value, ret>>
    /\ UNCHANGED parseVars
    /\ UNCHANGED filtersVars
    /\ UNCHANGED collVars

\* atomic.AddInt32(&currentMissCacheSize, 1); return Pass
AddMiss(w) ==
    /\ pc[w] = "addMiss"
    /\ currentMissCacheSize' = AddInt32(currentMissCacheSize)
    /\ Return(w, Pass)
    /\ UNCHANGED <<e, closure, matchCacheSize, matchCache, missCache,
                   currentMatchCacheSize, args, value>>
    /\ UNCHANGED parseVars
    /\ UNCHANGED filtersVars
    /\ UNCHANGED collVars

(***************************************************************************)
(* MetricDefinitionFilters.Filter.  A filter of m is the decision it       *)
(* returns for the (name, tags) of this call; invoked records which        *)
(* filters the loop has called.                                            *)
(***************************************************************************)
Running == "running"

\* a loop that returns on Fail alone
ConclusiveOnlyFail(d) == d = Fail

\* the decisions on which the loop returns
Conclusive(d) == d = Fail \/ d = Pass

\* one iteration of the loop: decision := m[i](name, tags)
FilterStep ==
    /\ decision = Running
    /\ fi < Len(m)
    /\ invoked' = Append(invoked, fi)
    /\ IF Conclusive(At(m, fi))
       THEN decision' = At(m, fi) /\ UNCHANGED fi
       ELSE fi' = fi + 1 /\ UNCHANGED decision
    /\ UNCHANGED m
    /\ UNCHANGED parseVars
    /\ UNCHANGED closureVars
    /\ UNCHANGED collVars

\* the loop is over: return None
FilterEnd ==
    /\ decision = Running
    /\ fi >= Len(m)
    /\ decision' = None
    /\ UNCHANGED <<m, fi, invoked>>
    /\ UNCHANGED parseVars
    /\ UNCHANGED closureVars
    /\ UNCHANGED collVars

(***************************************************************************)
(* ParseExpression and GetDefaultDecision as steps.                        *)
(***************************************************************************)
NotParsed == [err |-> "not parsed", e |-> NilExpression]

\* no call of Strings() yet; no call of findInitialExpression yet
NoStrings == <<>>
NotSearched == <<>>

Parse ==
    /\ pres = NotParsed
    /\ pres' = ParseExpression(text)
    /\ UNCHANGED <<text, dflt, str, again>>
    /\ UNCHANGED closureVars
    /\ UNCHANGED filtersVars
    /\ UNCHANGED collVars

DefaultDecision ==
    /\ pres.err = ErrNil
    /\ pres.e.op = NOT_MATCH
    /\ dflt = Unset
    /\ dflt' = GetDefaultDecision(pres.e)
    /\ UNCHANGED <<text, pres, str, again>>
    /\ UNCHANGED closureVars
    /\ UNCHANGED filtersVars
    /\ UNCHANGED collVars

\* a token table that writes HAS_TAG as NOT_HAS_TAG is written
OperatorTokenHasTagAsEquals(o) ==
    CASE o = EQUAL -> <<"=">>
      [] o = NOT_EQUAL -> <<"!", "=">>
      [] o = MATCH -> <<"=", "~">>
      [] o = MATCH_TAG -> <<"=", "~">>
      [] o = NOT_MATCH -> <<"!", "=", "~">>
      [] o = PREFIX -> <<"^", "=">>
      [] o = PREFIX_TAG -> <<"^", "=">>
      [] o = HAS_TAG -> <<"=">>
      [] o = NOT_HAS_TAG -> <<"=">>
      [] OTHER -> <<>>

\* ExpressionOperator.StringIntoBuilder: what it writes
OperatorToken(o) ==
    CASE o = EQUAL -> <<"=">>
      [] o = NOT_EQUAL -> <<"!", "=">>
      [] o = MATCH -> <<"=", "~">>
      [] o = MATCH_TAG -> <<"=", "~">>
      [] o = NOT_MATCH -> <<"!", "=", "~">>
      [] o = PREFIX -> <<"^", "=">>
      [] o = PREFIX_TAG -> <<"^", "=">>
      [] o = HAS_TAG -> <<"!", "=">>
      [] o = NOT_HAS_TAG -> <<"=">>
      [] OTHER -> <<>>

\* StringIntoBuilder of the variants other than NOT_MATCH: the key, the
\* token of the operator, the value
StringIntoBuilderOfOthers(x) == x.key \o OperatorToken(x.op) \o x.value

\* x.StringIntoBuilder(&builder); builder.String()
StringIntoBuilder(x) ==
    IF x.op = NOT_MATCH
    THEN x.key \o <<"!", "=", "~">> \o x.value
    ELSE StringIntoBuilderOfOthers(x)

\* Expressions.Strings()
Strings(s) == [i \in 1 .. Len(s) |-> StringIntoBuilder(s[i])]

ExpressionsAreEqual(expr1, expr2) ==
    /\ expr1.key = expr2.key
    /\ expr1.op = expr2.op
    /\ expr1.value = expr2.value

\* Strings() on the collection of the one parsed expression
Serialize ==
    /\ pres.err = ErrNil
    /\ str = NoStrings
    /\ str' = Strings(<<pres.e>>)
    /\ UNCHANGED <<text, pres, dflt, again>>
    /\ UNCHANGED closureVars
    /\ UNCHANGED filtersVars
    /\ UNCHANGED collVars

\* ParseExpression on the string Strings() gave
Reparse ==
    /\ str # NoStrings
    /\ again = NotParsed
    /\ again' = ParseExpression(str[1])
    /\ UNCHANGED <<text, pres, dflt, str>>
    /\ UNCHANGED closureVars
    /\ UNCHANGED filtersVars
    /\ UNCHANGED collVars

(***************************************************************************)
(* An Expressions collection.                                              *)
(***************************************************************************)
\* the characters of the keys and values compared here, in the order of
\* their bytes: ( 40, ) 41, . 46, : 58, ? 63, ^ 94, _ 95, a 97 ... z 122
Ascii == <<"(", ")", ".", ":", "?", "^", "_", "a", "b", "c", "d", "e", "f",
           "g", "h", "i", "j", "k", "l", "m", "n", "o", "p", "q", "r", "s",
           "t", "u", "v", "w", "x", "y", "z">>

\* the place of a character in the byte order
Byte(c) == CHOOSE i \in 1 .. Len(Ascii) : Ascii[i] = c

\* s < t on Go strings: bytewise, a proper prefix first
RECURSIVE StrLess(_, _)
StrLess(s, t) ==
    IF t = <<>> THEN FALSE
    ELSE IF s = <<>> THEN TRUE
    ELSE IF Head(s) = Head(t) THEN StrLess(Tail(s), Tail(t))
    ELSE Byte(Head(s)) < Byte(Head(t))

\* operators the cost map names beside the nine of the const block
MATCH_NONE == "MATCH_NONE"
MATCH_ALL == "MATCH_ALL"

\* costByOperator, as the ranks of its entries
CostByOperator ==
    [o \in {MATCH_NONE, EQUAL, HAS_TAG, PREFIX, PREFIX_TAG, NOT_EQUAL,
            NOT_HAS_TAG, MATCH, MATCH_TAG, NOT_MATCH, MATCH_ALL} |->
        CASE o = MATCH_NONE -> 0
          [] o = EQUAL -> 1
          [] o = HAS_TAG -> 2
          [] o = PREFIX -> 3
          [] o = PREFIX_TAG -> 4
          [] o = NOT_EQUAL -> 5
          [] o = NOT_HAS_TAG -> 6
          [] o = MATCH -> 7
          [] o = MATCH_TAG -> 8
          [] o = NOT_MATCH -> 9
          [] o = MATCH_ALL -> 10]

\* a less function that stops at the key
LessIgnoringValue(s, i, j) ==
    IF At(s, i).op = At(s, j).op
    THEN StrLess(At(s, i).key, At(s, j).key)
    ELSE CostByOperator[At(s, i).op] < CostByOperator[At(s, j).op]

\* the less function handed to sort.Slice, on the slice s
Less(s, i, j) ==
    IF At(s, i).op = At(s, j).op
    THEN IF At(s, i).key = At(s, j).key
         THEN StrLess(At(s, i).value, At(s, j).value)
         ELSE StrLess(At(s, i).key, At(s, j).key)
    ELSE CostByOperator[At(s, i).op] < CostByOperator[At(s, j).op]

\* the swap sort.Slice does on the slice
Swap(s, i, j) ==
    [s EXCEPT ![i + 1] = At(s, j), ![j + 1] = At(s, i)]

\* sort.Slice on a slice of at most 12 elements is an insertion sort:
\* for j := i; j > 0 && less(j, j-1); j-- { swap(j, j-1) }
RECURSIVE InsertBack(_, _)
InsertBack(s, j) ==
    IF j > 0 /\ Less(s, j, j - 1)
    THEN InsertBack(Swap(s, j, j - 1), j - 1)
    ELSE s

\* for i := 1; i < len(s); i++ { ... }
RECURSIVE InsertionSort(_, _)
InsertionSort(s, i) ==
    IF i < Len(s) THEN InsertionSort(InsertBack(s, i), i + 1) ELSE s

SortByFilterOrder ==
    /\ ~sorted
    /\ initial = NotSearched
    /\ expressions' = InsertionSort(expressions, 1)
    /\ sorted' = TRUE
    /\ UNCHANGED <<given, initial>>
    /\ UNCHANGED parseVars
    /\ UNCHANGED closureVars
    /\ UNCHANGED filtersVars

\* RequiresNonEmptyValue() of the variants other than NOT_MATCH
RequiresNonEmptyValueOfOthers(operator) ==
    operator \in {EQUAL, NOT_EQUAL, MATCH, MATCH_TAG, PREFIX, PREFIX_TAG}

\* x.RequiresNonEmptyValue(): expressionNotMatch returns false
RequiresNonEmptyValue(x) ==
    IF x.op = NOT_MATCH THEN FALSE ELSE RequiresNonEmptyValueOfOthers(x.op)

\* the order of preference to start with
Preference == <<EQUAL, HAS_TAG, PREFIX, PREFIX_TAG, MATCH, MATCH_TAG, NOT_MATCH>>

\* the inner loop: the first i from i on whose operator is op and that
\* requires a non-empty value, -1 without one
RECURSIVE FirstOf(_, _, _)
FirstOf(s, op, i) ==
    IF i >= Len(s) THEN -1
    ELSE IF At(s, i).op = op /\ RequiresNonEmptyValue(At(s, i)) THEN i
    ELSE FirstOf(s, op, i + 1)

\* a search that takes the last preference first
RECURSIVE findInitialExpressionReversed(_, _)
findInitialExpressionReversed(s, p) ==
    IF p >= Len(Preference) THEN -1
    ELSE LET later == findInitialExpressionReversed(s, p + 1)
         IN IF later # -1 THEN later ELSE FirstOf(s, At(Preference, p), 0)

\* the outer loop over the preferences, from preference p on
RECURSIVE findInitialExpression(_, _)
findInitialExpression(s, p) ==
    IF p >= Len(Preference) THEN -1
    ELSE LET i == FirstOf(s, At(Preference, p), 0)
         IN IF i # -1 THEN i ELSE findInitialExpression(s, p + 1)

FindInitialExpression ==
    /\ initial = NotSearched
    /\ initial' = <<findInitialExpression(expressions, 0)>>
    /\ UNCHANGED <<given, expressions, sorted>>
    /\ UNCHANGED parseVars
    /\ UNCHANGED closureVars
    /\ UNCHANGED filtersVars

(***************************************************************************)
(* Inputs.                                                                 *)
(***************************************************************************)
\* the characters of the grammar and one key/value character
OpAlphabet == {"a", "=", "!", "^", "~", ";"}

\* what a text may start with
KeyStems == {<<>>, TagKey, NameKey}

\* what a text may end with
ValueTails == {<<>>, <<".", "*">>, <<"(">>, <<"h", "o">>, <<"b", ";">>}

\* the texts of the documented scenarios
ExampleTexts == {
    <<"t", "a", "g", "!", "=", "~", ".", "*">>,
    <<"t", "a", "g", "!", "=", "~", "a", "b", "c">>,
    <<"h", "o", "s", "t", "!", "=", "~", "^", "w", "e", "b", ".", "*">>,
    <<"h", "o", "s", "t", "=", "w", "e", "b", "0", "1">>,
    <<"_", "_", "t", "a", "g", "^", "=", "h", "o">>,
    <<"_", "_", "t", "a", "g", "!", "=", "x">>,
    <<"_", "_", "t", "a", "g", "=", "~", "x">>,
    <<"k", "e", "y", "!", "=", "~", "f", "o", "o">>,
    <<"k", "e", "y", "=", "~", "f", "o", "o">>,
    <<"k", "e", "y", "=", "~", "^", "f", "o", "o">>,
    <<"k", "e", "y", "=", "~", "^", "(", "?", ":", "f", "o", "o", ")">>,
    <<"=", "v", "a", "l", "u", "e">> }

\* the texts of the expressions a collection is drawn from: one of each
\* operator, and pairs that differ in the key or in the value alone
CollTexts == {
    <<"a", "!", "=", "~", "x">>,
    <<"b", "=", "x">>,
    <<"c", "!", "=">>,
    <<"a", "=", "x">>,
    <<"a", "=", "y">>,
    <<"a", "b", "=", "x">>,
    <<"b", "!", "=", "x">>,
    <<"c", "=">>,
    <<"a", "=", "~", "x">>,
    <<"a", "=", "~", "^", "a">>,
    <<"a", "^", "=", "x">>,
    TagKey \o <<"^", "=", "x">>,
    TagKey \o <<"=", "~", "x">> }

\* ParseExpressions on each of them
CollExprs == {ParseExpression(t).e : t \in CollTexts}

Texts ==
    {k \o mid \o v : k \in KeyStems, mid \in SeqsUpTo(OpAlphabet, MaxLen),
                     v \in ValueTails}
    \cup ExampleTexts

HostWeb01 == <<"h", "o", "s", "t", "=", "w", "e", "b", "0", "1">>
HostWeb02 == <<"h", "o", "s", "t", "=", "w", "e", "b", "0", "2">>
HostDb == <<"h", "o", "s", "t", "=", "d", "b">>
HostQa == <<"h", "o", "s", "t", "=", "q", "a">>
EnvProd == <<"e", "n", "v", "=", "p", "r", "o", "d">>

\* the tag lists workers pass to the tag closure
TagLists == { <<>>, <<EnvProd>>, <<HostWeb01>>, <<EnvProd, HostWeb02>>,
              <<HostDb, HostWeb01>> }

\* two more lists for the runs without overlapping calls
TagListsSeq == TagLists \cup { <<HostQa>>, <<HostWeb01, HostDb>> }

\* the tag lists workers pass to the name closures
TagListsName == { <<>>, <<HostWeb01>> }

\* the metric names workers pass to the name closures
Names == { <<"w", "e", "b", "0", "1">>, <<"d", "b">>, <<>> }

\* the tag closure's name parameter is blank: one name stands for all
AnyName == <<"w", "e", "b", "0", "1">>

\* an expressionNotMatch built without ParseExpression
NotMatchLiteral(key, val) ==
    MakeExpression(NOT_MATCH, [ZeroCommon EXCEPT !.key = key, !.value = val],
                   Compile(val).re)

HostKey == <<"h", "o", "s", "t">>

\* host!=~^web.*, and host!=~ with an empty value
TagExpressions ==
    { ParseExpression(HostKey \o <<"!", "=", "~", "^", "w", "e", "b", ".", "*">>).e,
      NotMatchLiteral(HostKey, <<>>) }

\* name!=~^web.*, name!=~db, and name!=~ with an empty value
NameExpressions ==
    { ParseExpression(NameKey \o <<"!", "=", "~", "^", "w", "e", "b", ".", "*">>).e,
      ParseExpression(NameKey \o <<"!", "=", "~", "d", "b">>).e,
      NotMatchLiteral(NameKey, <<>>) }

(***************************************************************************)
(* Specifications.                                                         *)
(***************************************************************************)
ParseIdle ==
    /\ text = <<>>
    /\ pres = NotParsed
    /\ dflt = Unset
    /\ str = NoStrings
    /\ again = NotParsed

CollIdle ==
    /\ given = <<>>
    /\ expressions = <<>>
    /\ sorted = FALSE
    /\ initial = NotSearched

ClosureIdle ==
    /\ e = NilExpression
    /\ closure = "none"
    /\ matchCacheSize = 0
    /\ matchCache = {}
    /\ missCache = {}
    /\ currentMatchCacheSize = 0
    /\ currentMissCacheSize = 0
    /\ pc = [w \in Workers |-> "idle"]
    /\ args = [w \in Workers |-> NoArgs]
    /\ value = [w \in Workers |-> <<>>]
    /\ ret = [w \in Workers |-> Unset]

FiltersIdle == m = <<>> /\ fi = 0 /\ invoked = <<>> /\ decision = Running

InitClosure(exprs) ==
    /\ e \in exprs
    /\ closure = "none"
    /\ matchCacheSize \in 0 .. MaxCap
    /\ matchCache = {}
    /\ missCache = {}
    /\ currentMatchCacheSize = 0
    /\ currentMissCacheSize = 0
    /\ pc = [w \in Workers |-> "idle"]
    /\ args = [w \in Workers |-> NoArgs]
    /\ value = [w \in Workers |-> <<>>]
    /\ ret = [w \in Workers |-> Unset]
    /\ ParseIdle
    /\ FiltersIdle
    /\ CollIdle

\* concurrent workers on one tag closure
Init == InitClosure(TagExpressions)

Next ==
    \/ GetMetricDefinitionFilter
    \/ \E w \in Workers : \E tags \in TagLists : Call(w, AnyName, tags)
    \/ \E w \in Workers : LoadMiss(w)
    \/ \E w \in Workers : LoadMatch(w)
    \/ \E w \in Workers : SizeMatch(w)
    \/ \E w \in Workers : StoreMatch(w)
    \/ \E w \in Workers : AddMatch(w)
    \/ \E w \in Workers : SizeMiss(w)
    \/ \E w \in Workers : StoreMiss(w)
    \/ \E w \in Workers : AddMiss(w)

Spec == Init /\ [][Next]_vars

\* the same closure when calls do not overlap: a call starts only when no
\* other worker is inside the closure
NoCallInProgress == \A w \in Workers : pc[w] \in {"idle", "done"}

NextSeq ==
    \/ GetMetricDefinitionFilter
    \/ \E w \in Workers : \E tags \in TagListsSeq :
            NoCallInProgress /\ Call(w, AnyName, tags)
    \/ \E w \in Workers : LoadMiss(w)
    \/ \E w \in Workers : LoadMatch(w)
    \/ \E w \in Workers : SizeMatch(w)
    \/ \E w \in Workers : StoreMatch(w)
    \/ \E w \in Workers : AddMatch(w)
    \/ \E w \in Workers : SizeMiss(w)
    \/ \E w \in Workers : StoreMiss(w)
    \/ \E w \in Workers : AddMiss(w)

SpecSeq == Init /\ [][NextSeq]_vars

\* workers on a closure of an expression with key "name"
InitName == InitClosure(NameExpressions)

NextName ==
    \/ GetMetricDefinitionFilter
    \/ \E w \in Workers : \E name \in Names : \E tags \in TagListsName :
            Call(w, name, tags)

SpecName == InitName /\ [][NextName]_vars

\* ParseExpression on one text, then the methods of the result
InitParse ==
    /\ text \in Texts
    /\ pres = NotParsed
    /\ dflt = Unset
    /\ str = NoStrings
    /\ again = NotParsed
    /\ ClosureIdle
    /\ FiltersIdle
    /\ CollIdle

NextParse == Parse \/ DefaultDecision \/ Serialize \/ Reparse

SpecParse == InitParse /\ [][NextParse]_vars

\* one call of MetricDefinitionFilters.Filter
Decisions == {None, Fail, Pass}

InitFilters ==
    /\ m \in SeqsUpTo(Decisions, MaxFilters)
    /\ fi = 0
    /\ invoked = <<>>
    /\ decision = Running
    /\ ParseIdle
    /\ ClosureIdle
    /\ CollIdle

NextFilters == FilterStep \/ FilterEnd

SpecFilters == InitFilters /\ [][NextFilters]_vars

\* a collection of up to MaxExprs parsed expressions; the caller may sort
\* it and then ask for the expression to start with
InitColl ==
    /\ given \in SeqsUpTo(CollExprs, MaxExprs)
    /\ expressions = given
    /\ sorted = FALSE
    /\ initial = NotSearched
    /\ ParseIdle
    /\ ClosureIdle
    /\ FiltersIdle

NextColl == SortByFilterOrder \/ FindInitialExpression

SpecColl == InitColl /\ [][NextColl]_vars

(***************************************************************************)
(* Properties.                                                             *)
(***************************************************************************)
\* the indexes (1-based) of the filters of m with a conclusive decision
ConclusiveAt == {i \in 1 .. Len(m) : m[i] \in {Fail, Pass}}

\* the smallest element of a non-empty set of numbers
Least(S) == CHOOSE i \in S : \A j \in S : i <= j

\* <<0, 1, ..., n - 1>>
FirstIndexes(n) == [i \in 1 .. n |-> i - 1]

\* C1: once Filter has returned, its decision is that of the first filter
\* of m that returns Fail or Pass, the filters invoked are exactly those up
\* to and including that one, in list order, and the decision is None if
\* and only if every filter returns None; [None, Fail, Pass] gives Fail
\* and [None, None] gives None.
C1_FirstConclusiveDecides ==
    decision # Running =>
        /\ IF ConclusiveAt = {}
           THEN decision = None /\ invoked = FirstIndexes(Len(m))
           ELSE /\ decision = m[Least(ConclusiveAt)]
                /\ invoked = FirstIndexes(Least(ConclusiveAt))
        /\ (decision = None <=> \A i \in 1 .. Len(m) : m[i] = None)
        /\ (m = <<None, Fail, Pass>> => decision = Fail)
        /\ (m = <<None, None>> => decision = None)

\* Filter has returned Fail for [None, Fail, Pass] without calling the third
C1_Witness ==
    m = <<None, Fail, Pass>> /\ decision = Fail /\ invoked = <<0, 1>>

\* the indexes of the tags that start with "k="
WithKey(x, tags) ==
    {i \in 1 .. Len(tags) : HasPrefix(tags[i], x.key \o <<"=">>)}

\* the text of a tag after "k="
AfterKey(x, tag) == SubSeq(tag, Len(x.key) + 2, Len(tag))

HostNotMatchWeb ==
    ParseExpression(<<"h", "o", "s", "t", "!", "=", "~", "^", "w", "e", "b", ".", "*">>).e

\* C2: a returned call of the tag closure of a NOT_MATCH expression with a
\* non-empty value returned None if and only if no tag starts with "k=";
\* otherwise the first tag that starts with "k=" decides: Fail if the text
\* after "k=" matches the pattern, Pass if it does not.  host!=~^web.* gives
\* Fail on [host=web01] and None on [env=prod].
C2_FirstTagWithKeyDecides ==
    \A w \in Workers :
        (pc[w] = "done" /\ closure = "tags" /\ e.value # <<>>) =>
            LET tags == args[w].tags
                with == WithKey(e, tags)
            IN  /\ (ret[w] = None <=> with = {})
                /\ with # {} =>
                      ret[w] = IF MatchString(e.valueRe, AfterKey(e, tags[Least(with)]))
                               THEN Fail ELSE Pass
                /\ (e = HostNotMatchWeb /\ tags = <<HostWeb01>>) => ret[w] = Fail
                /\ (e = HostNotMatchWeb /\ tags = <<EnvProd>>) => ret[w] = None

\* host!=~^web.* has passed [host=db, host=web01] on its first host tag
C2_Witness ==
    \E w \in Workers :
        /\ pc[w] = "done"
        /\ e = HostNotMatchWeb
        /\ args[w].tags = <<HostDb, HostWeb01>>
        /\ ret[w] = Pass

\* the decision of the closure computed with the regex alone, no cache
CacheFree(x, name, tags) ==
    IF x.key = NameKey THEN
        IF x.value = <<>> THEN Pass
        ELSE IF MatchString(x.valueRe, name) THEN Fail ELSE Pass
    ELSE IF WithKey(x, tags) = {} THEN None
    ELSE IF x.value = <<>> THEN Pass
    ELSE IF MatchString(x.valueRe, AfterKey(x, tags[Least(WithKey(x, tags))]))
         THEN Fail ELSE Pass

\* C3: under any interleaving of the workers and for any cap, every
\* returned call returned the cache-free decision for its (name, tags), so
\* two returned calls with the same input agree.
C3_DecisionIsCacheFree ==
    /\ \A w \in Workers :
            pc[w] = "done" => ret[w] = CacheFree(e, args[w].name, args[w].tags)
    /\ \A v, w \in Workers :
            (pc[v] = "done" /\ pc[w] = "done" /\ args[v] = args[w]) => ret[v] = ret[w]

\* both caches are filled, the match cache beyond its cap, and a call on a
\* cached value has returned
C3_Witness ==
    /\ Cardinality(matchCache) > matchCacheSize
    /\ missCache # {}
    /\ \E w \in Workers :
            pc[w] = "done" /\ value[w] \in matchCache /\ ret[w] = Fail

\* C4: the default decision of a parsed NOT_MATCH expression is Fail when
\* its pattern matches the empty string and Pass when it does not.
C4_DefaultDecisionFollowsPattern ==
    dflt # Unset =>
        dflt = IF MatchString(pres.e.valueRe, <<>>) THEN Fail ELSE Pass

\* C5: when calls do not overlap, neither cache ever holds more entries
\* than matchCacheSize, a cap of 0 caches nothing, and a step that inserts
\* into a cache finds that cache's counter below the cap.
C5_CachesWithinCap ==
    /\ [](/\ Cardinality(matchCache) <= matchCacheSize
          /\ Cardinality(missCache) <= matchCacheSize
          /\ (matchCacheSize = 0 => matchCache = {} /\ missCache = {}))
    /\ [][/\ (matchCache' # matchCache => currentMatchCacheSize < matchCacheSize)
          /\ (missCache' # missCache => currentMissCacheSize < matchCacheSize)]_vars

\* both caches are full at cap 1, and a call on another matching value
\* has returned without its value being cached
C5_Witness ==
    /\ NoCallInProgress
    /\ matchCacheSize = 1
    /\ Cardinality(matchCache) = 1
    /\ Cardinality(missCache) = 1
    /\ \E w \in Workers :
            pc[w] = "done" /\ ret[w] = Fail /\ value[w] \notin matchCache

\* C6: no step removes a value from the match cache or from the miss
\* cache, and no step decreases a size counter.
C6_CachesOnlyGrow ==
    [][/\ matchCache \subseteq matchCache'
       /\ missCache \subseteq missCache'
       /\ currentMatchCacheSize <= currentMatchCacheSize'
       /\ currentMissCacheSize <= currentMissCacheSize']_vars

\* the match cache holds two values and the miss cache one
C6_Witness ==
    /\ Cardinality(matchCache) = 2
    /\ missCache # {}
    /\ currentMatchCacheSize = 2

\* C7: the closure of a NOT_MATCH expression with key "name" never returns
\* None: it returns Pass when the value is empty, else Fail when the name
\* matches the pattern and Pass when it does not, whatever the tags, and
\* the caches and counters stay as they were created.
C7_NameKeyAlwaysDecides ==
    /\ \A w \in Workers :
            pc[w] = "done" =>
                /\ ret[w] # None
                /\ ret[w] = IF e.value = <<>> THEN Pass
                            ELSE IF MatchString(e.valueRe, args[w].name)
                            THEN Fail ELSE Pass
    /\ \A v, w \in Workers :
            (pc[v] = "done" /\ pc[w] = "done" /\ args[v].name = args[w].name)
                => ret[v] = ret[w]
    /\ matchCache = {} /\ missCache = {}
    /\ currentMatchCacheSize = 0 /\ currentMissCacheSize = 0

\* on the same tags one name has failed and another has passed
C7_Witness ==
    \E v, w \in Workers :
        /\ pc[v] = "done" /\ pc[w] = "done"
        /\ args[v].tags = <<HostWeb01>> /\ args[w].tags = <<HostWeb01>>
        /\ ret[v] = Fail /\ ret[w] = Pass
        /\ e.value # <<>>

\* the flags and the value a text carries after a key of length n
TextNot(t, n) == Len(t) > n /\ t[n + 1] = "!"
TextPrefix(t, n) == Len(t) > n /\ t[n + 1] = "^"
TextEqualsAt(t, n) == IF TextNot(t, n) \/ TextPrefix(t, n) THEN n + 2 ELSE n + 1
TextRegex(t, n) == Len(t) > TextEqualsAt(t, n) /\ t[TextEqualsAt(t, n) + 1] = "~"
TextValue(t, n) ==
    SubSeq(t, TextEqualsAt(t, n) + (IF TextRegex(t, n) THEN 2 ELSE 1), Len(t))

\* the operator table of the grammar
OperatorTable(not, prefix, regex, empty) ==
    IF not /\ empty THEN HAS_TAG
    ELSE IF not /\ regex THEN NOT_MATCH
    ELSE IF not THEN NOT_EQUAL
    ELSE IF prefix /\ empty THEN HAS_TAG
    ELSE IF prefix THEN PREFIX
    ELSE IF empty THEN NOT_HAS_TAG
    ELSE IF regex THEN MATCH
    ELSE EQUAL

\* C8: an accepted text whose key is not "__tag" gets the operator the
\* table gives for its flags (the character after the key, a "~" after
\* the "=") and the emptiness of its value; host=web01 is EQUAL with key
\* host and value web01.
C8_OperatorFollowsTable ==
    (pres.err = ErrNil /\ pres.e.key # TagKey) =>
        LET n == Len(pres.e.key)
        IN  /\ pres.e.op = OperatorTable(TextNot(text, n), TextPrefix(text, n),
                                         TextRegex(text, n),
                                         TextValue(text, n) = <<>>)
            /\ text = HostWeb01 =>
                    /\ pres.e.op = EQUAL
                    /\ pres.e.key = HostKey
                    /\ pres.e.value = <<"w", "e", "b", "0", "1">>

\* a text with "~" and an empty value has been parsed to NOT_HAS_TAG
C8_Witness ==
    /\ text = <<"a", "=", "~">>
    /\ pres.err = ErrNil
    /\ pres.e.op = NOT_HAS_TAG

\* C9: a text that contains ";" at any position is refused: an error and
\* no expression.
C9_SemicolonRefused ==
    (pres # NotParsed /\ \E i \in 1 .. Len(text) : text[i] = ";") =>
        pres.err # ErrNil /\ pres.e = NilExpression

\* a text with ";" at the end of its value has been refused
C9_Witness ==
    /\ text = <<"a", "=", "~", "b", ";">>
    /\ pres.err = ErrInvalidExpression

\* a text made of the key "__tag" and one of the terminators
HasTagKey(t) ==
    Len(t) > Len(TagKey) /\ SubSeq(t, 1, Len(TagKey)) = TagKey
        /\ t[Len(TagKey) + 1] \in {"=", "!", "^"}

\* C10: a text with key "__tag" is refused as an invalid expression when
\* it uses "!" or has an empty value; an accepted one is PREFIX_TAG when it
\* uses "^", MATCH_TAG when it uses "~", and EQUAL otherwise.
C10_TagKeyRules ==
    (pres # NotParsed /\ HasTagKey(text)) =>
        LET n == Len(TagKey)
        IN  /\ (TextNot(text, n) \/ TextValue(text, n) = <<>>)
                    => pres.err = ErrInvalidExpression
            /\ pres.err = ErrNil =>
                    /\ pres.e.key = TagKey
                    /\ pres.e.op = IF TextPrefix(text, n) THEN PREFIX_TAG
                                   ELSE IF TextRegex(text, n) THEN MATCH_TAG
                                   ELSE EQUAL
            /\ text = TagKey \o <<"^", "=", "h", "o">> => pres.e.op = PREFIX_TAG
            /\ text = TagKey \o <<"=", "~", "x">> => pres.e.op = MATCH_TAG
            /\ text \in {TagKey \o <<"!", "=", "x">>, TagKey \o <<"=">>,
                         TagKey \o <<"^", "=">>}
                    => pres.err = ErrInvalidExpression

\* __tag=~x has been parsed to MATCH_TAG
C10_Witness ==
    /\ text = TagKey \o <<"=", "~", "x">>
    /\ pres.err = ErrNil
    /\ pres.e.op = MATCH_TAG

\* the position (1-based) of the first of = ! ^ in a text, 0 without one
KeyEnd(t) ==
    LET at == {i \in 1 .. Len(t) : t[i] \in {"=", "!", "^"}}
    IN IF at = {} THEN 0 ELSE Least(at)

\* C11: a structurally malformed text is refused as an invalid expression:
\* one with an empty key (the empty text, a text that starts with = ! or
\* ^), one without "=", one whose ! or ^ after the key is not followed at
\* once by "=", and one with ^=~.
C11_MalformedIsInvalid ==
    pres # NotParsed =>
        LET k == KeyEnd(text)
        IN  /\ (text = <<>> \/ k = 1) => pres.err = ErrInvalidExpression
            /\ (\A i \in 1 .. Len(text) : text[i] # "=")
                    => pres.err = ErrInvalidExpression
            /\ (k > 0 /\ text[k] \in {"!", "^"}
                      /\ (Len(text) = k \/ text[k + 1] # "="))
                    => pres.err = ErrInvalidExpression
            /\ (k > 0 /\ text[k] = "^" /\ Len(text) >= k + 2
                      /\ text[k + 1] = "=" /\ text[k + 2] = "~")
                    => pres.err = ErrInvalidExpression
            /\ text = <<"=", "v", "a", "l", "u", "e">>
                    => pres.err = ErrInvalidExpression

\* a^=~ho has been refused
C11_Witness ==
    /\ text = <<"a", "^", "=", "~", "h", "o">>
    /\ pres.err = ErrInvalidExpression

\* the operators in the order of their cost, the cheapest first
CostOrder == <<EQUAL, HAS_TAG, PREFIX, PREFIX_TAG, NOT_EQUAL, NOT_HAS_TAG,
               MATCH, MATCH_TAG, NOT_MATCH>>

\* the place of an element in a sequence without repetitions
PlaceIn(seq, x) == CHOOSE i \in 1 .. Len(seq) : seq[i] = x

\* x is not after y in the order by (operator cost, key, value)
TripleLeq(x, y) ==
    \/ PlaceIn(CostOrder, x.op) < PlaceIn(CostOrder, y.op)
    \/ /\ x.op = y.op
       /\ \/ StrLess(x.key, y.key)
          \/ x.key = y.key /\ (x.value = y.value \/ StrLess(x.value, y.value))

\* how often x occurs in s
Count(s, x) == Cardinality({i \in 1 .. Len(s) : s[i] = x})

IsPermutation(s, t) ==
    /\ Len(s) = Len(t)
    /\ \A i \in 1 .. Len(s) : Count(s, s[i]) = Count(t, s[i])

NotMatchA == ParseExpression(<<"a", "!", "=", "~", "x">>).e
EqualB == ParseExpression(<<"b", "=", "x">>).e
HasTagC == ParseExpression(<<"c", "!", "=">>).e

\* C12: once SortByFilterOrder has returned, the collection is a
\* permutation of what it was and is in non-decreasing order of (operator
\* cost, key, value); [NOT_MATCH(a), EQUAL(b), HAS_TAG(c)] has become
\* [EQUAL(b), HAS_TAG(c), NOT_MATCH(a)].
C12_SortedPermutation ==
    sorted =>
        /\ IsPermutation(expressions, given)
        /\ \A i \in 1 .. Len(expressions) - 1 :
               TripleLeq(expressions[i], expressions[i + 1])
        /\ given = <<NotMatchA, EqualB, HasTagC>>
               => expressions = <<EqualB, HasTagC, NotMatchA>>

\* the documented collection has been sorted
C12_Witness ==
    /\ sorted
    /\ given = <<NotMatchA, EqualB, HasTagC>>
    /\ expressions = <<EqualB, HasTagC, NotMatchA>>

\* the operators of the preference list
Preferred == {Preference[i] : i \in 1 .. Len(Preference)}

\* the indexes (0-based) findInitialExpression may choose from
Qualifying ==
    {k \in 0 .. Len(expressions) - 1 :
        /\ At(expressions, k).op \in Preferred
        /\ RequiresNonEmptyValue(At(expressions, k))}

\* the indexes (0-based) of the expressions with the operator op
IndexesOf(op) == {k \in 0 .. Len(expressions) - 1 : At(expressions, k).op = op}

\* C13: findInitialExpression returns -1 exactly when no expression has a
\* preferred operator and requires a non-empty value; otherwise the lowest
\* index among those of the most preferred such operator. -1 for HAS_TAG
\* and NOT_HAS_TAG alone, never a NOT_EQUAL or a NOT_HAS_TAG, and the sole
\* EQUAL beside NOT_EQUAL and MATCH.
C13_InitialIsMostPreferred ==
    initial # NotSearched =>
        LET i == initial[1]
        IN  /\ i = -1 <=> Qualifying = {}
            /\ i # -1 =>
                /\ i \in Qualifying
                /\ \A k \in Qualifying :
                    \/ PlaceIn(Preference, At(expressions, i).op)
                         < PlaceIn(Preference, At(expressions, k).op)
                    \/ /\ At(expressions, i).op = At(expressions, k).op
                       /\ i <= k
                /\ At(expressions, i).op \notin {NOT_EQUAL, NOT_HAS_TAG}
            /\ (\A k \in 1 .. Len(expressions) :
                    expressions[k].op \in {HAS_TAG, NOT_HAS_TAG}) => i = -1
            /\ ( /\ Cardinality(IndexesOf(EQUAL)) = 1
                 /\ \A k \in 1 .. Len(expressions) :
                        expressions[k].op \in {EQUAL, NOT_EQUAL, MATCH} )
                    => i \in IndexesOf(EQUAL)

\* the EQUAL between a NOT_EQUAL and a MATCH has been returned
C13_Witness ==
    /\ Len(expressions) = 3
    /\ expressions[1].op = NOT_EQUAL
    /\ expressions[2].op = EQUAL
    /\ expressions[3].op = MATCH
    /\ initial = <<1>>

\* C14: a NOT_MATCH expression requires a non-empty value, so that
\* findInitialExpression returns a NOT_MATCH when no expression of a more
\* preferred operator qualifies.
C14_NotMatchIsEligible ==
    initial # NotSearched =>
        /\ \A k \in 1 .. Len(expressions) :
               expressions[k].op = NOT_MATCH
                   => RequiresNonEmptyValue(expressions[k])
        /\ (IndexesOf(NOT_MATCH) # {} /\ Qualifying \subseteq IndexesOf(NOT_MATCH))
               => initial[1] = Least(IndexesOf(NOT_MATCH))

\* the length of the key of the parsed text
KeyLen == Len(pres.e.key)

\* the value as it is written in the text
Written == TextValue(text, KeyLen)

KeyNotMatchFoo == <<"k", "e", "y", "!", "=", "~", "f", "o", "o">>
KeyMatchFoo == <<"k", "e", "y", "=", "~", "f", "o", "o">>
KeyMatchCaretFoo == <<"k", "e", "y", "=", "~", "^", "f", "o", "o">>
KeyMatchAnchoredFoo ==
    <<"k", "e", "y", "=", "~", "^", "(", "?", ":", "f", "o", "o", ")">>
Foo == <<"f", "o", "o">>
AnchoredFoo == <<"^", "(", "?", ":", "f", "o", "o", ")">>

\* C15: a parsed MATCH, NOT_MATCH or MATCH_TAG expression carries the value
\* as it is written in the text, in GetValue() and in its serialized form;
\* key!=~foo gives the value foo.
C15_ValueIsAsWritten ==
    (pres.err = ErrNil /\ pres.e.op \in ReOperators) =>
        /\ pres.e.value = Written
        /\ text = KeyNotMatchFoo => pres.e.value = Foo
        /\ str # NoStrings =>
               str[1] = pres.e.key \o OperatorToken(pres.e.op) \o Written

\* C16: an accepted text with a non-regex operator, serialized by Strings()
\* and parsed again, is accepted and gives an expression with the same
\* key, operator and value; so for HAS_TAG from key^= and key!=~ and for
\* NOT_HAS_TAG from key=~.
C16_RoundTrip ==
    (pres.err = ErrNil /\ pres.e.op \notin ReOperators) =>
        /\ str # NoStrings =>
               str[1] = pres.e.key \o OperatorToken(pres.e.op) \o pres.e.value
        /\ again # NotParsed =>
               /\ again.err = ErrNil
               /\ again.e.key = pres.e.key
               /\ again.e.op = pres.e.op
               /\ again.e.value = pres.e.value
               /\ ExpressionsAreEqual(pres.e, again.e)

\* a^= has been parsed as HAS_TAG, written as a!= and parsed again
C16_Witness ==
    /\ text = <<"a", "^", "=">>
    /\ pres.e.op = HAS_TAG
    /\ str = << <<"a", "!", "=">> >>
    /\ again.err = ErrNil
    /\ again.e.op = HAS_TAG

\* the rewrite as the grammar states it
Anchored(v) ==
    IF v # <<>> /\ v[1] = "^" THEN v ELSE <<"^", "(", "?", ":">> \o v \o <<")">>

\* C17: the compiled pattern of a MATCH, NOT_MATCH or MATCH_TAG expression
\* is the written value when that starts with ^ and ^(?:value) otherwise;
\* no other expression has a pattern or a rewritten value; rewriting a
\* rewritten value changes nothing; key=~foo and key=~^(?:foo) compile
\* ^(?:foo), key=~^foo compiles ^foo.
C17_AnchoredOnce ==
    pres.err = ErrNil =>
        /\ pres.e.op \in ReOperators =>
               /\ pres.e.valueRe.pat = Anchored(Written)
               /\ Anchored(pres.e.valueRe.pat) = pres.e.valueRe.pat
               /\ (pres.e.valueRe.pat # Written <=> Written[1] # "^")
        /\ pres.e.op \notin ReOperators =>
               /\ pres.e.valueRe = NoRe
               /\ pres.e.value = Written
        /\ text \in {KeyMatchFoo, KeyMatchAnchoredFoo} =>
               pres.e.valueRe.pat = AnchoredFoo
        /\ text = KeyMatchCaretFoo =>
               pres.e.valueRe.pat = <<"^", "f", "o", "o">>

\* key=~^(?:foo) has been compiled as it is written
C17_Witness ==
    /\ text = KeyMatchAnchoredFoo
    /\ pres.err = ErrNil
    /\ pres.e.op = MATCH
    /\ pres.e.valueRe.pat = AnchoredFoo

\* one call of ParseExpression has returned as a call must
Returned(r) ==
    r # NotParsed =>
        /\ r.err \notin {ErrPanic, ErrInvalidOperator}
        /\ r.err \in {ErrNil, ErrInvalidExpression, ErrValidateKey, ErrRegexp}
        /\ r.err = ErrNil <=> r.e # NilExpression

\* C18: every call of ParseExpression returns either an expression and no
\* error or an error and no expression; no index is out of range, and the
\* error for an invalid operator is never returned.
C18_TotalNoPanic == Returned(pres) /\ Returned(again)

\* the text ending right after ! has been refused
C18_Witness ==
    /\ text = <<"a", "!">>
    /\ pres.err = ErrInvalidExpression
    /\ pres.e = NilExpression

\* C19: with NumWorkers concurrent callers of one closure, each size
\* counter stays within matchCacheSize + NumWorkers - 1, and whenever no
\* call is in progress each cache holds at most as many values as its
\* counter says, hence at most matchCacheSize + NumWorkers - 1.
C19_OvershootIsBounded ==
    /\ currentMatchCacheSize <= matchCacheSize + NumWorkers - 1
    /\ currentMissCacheSize <= matchCacheSize + NumWorkers - 1
    /\ NoCallInProgress =>
        /\ Cardinality(matchCache) <= currentMatchCacheSize
        /\ Cardinality(missCache) <= currentMissCacheSize
        /\ Cardinality(matchCache) <= matchCacheSize + NumWorkers - 1
        /\ Cardinality(missCache) <= matchCacheSize + NumWorkers - 1

\* overlapping calls on one uncached value have returned: the counter is
\* at its bound, above the cap, and counts more than the cache holds
C19_Witness ==
    /\ NoCallInProgress
    /\ matchCacheSize >= 1
    /\ currentMatchCacheSize = matchCacheSize + NumWorkers - 1
    /\ Cardinality(matchCache) < currentMatchCacheSize
    /\ \A w \in Workers : pc[w] = "done" /\ ret[w] = Fail

\* C20: under any interleaving, every value of the match cache matches the
\* pattern and every value of the miss cache does not, so no value is in
\* both caches, and a returned call that found its value in a cache
\* returned what the other order of the two lookups would have returned.
C20_CachesAgreeWithPattern ==
    /\ \A v \in matchCache : MatchString(e.valueRe, v)
    /\ \A v \in missCache : ~MatchString(e.valueRe, v)
    /\ matchCache \cap missCache = {}
    /\ \A w \in Workers :
        (pc[w] = "done" /\ ret[w] = Pass) => ~Load(matchCache, value[w])
    /\ \A w \in Workers :
        (pc[w] = "done" /\ ret[w] = Fail) => ~Load(missCache, value[w])

\* both caches hold a value, and a call has returned Pass on a value it
\* found in the miss cache
C20_Witness ==
    /\ matchCache # {}
    /\ missCache # {}
    /\ \E w \in Workers :
        /\ pc[w] = "done"
        /\ ret[w] = Pass
        /\ Load(missCache, value[w])

====
